---------------------------- MODULE Spec2Model ----------------------------
(***************************************************************************)
(* Conway's Game of Life demo (src/convay/src/main.rs): the GameOfLife     *)
(* struct, its per-frame update handler, the update rule, resize, reset,   *)
(* drawing mode and the plain-text load.                                   *)
(*                                                                         *)
(* A Vec<bool> is a sequence; the code's zero-based index i is At(v, i).   *)
(* f32 seconds are integers counted in units of 2^-27 s (the ulp of 0.1f), *)
(* rounded to the f32 grid after every addition and subtraction.           *)
(***************************************************************************)
EXTENDS Integers, Sequences, FiniteSets, TLC

VARIABLES
    game,       \* the Game instance: the GameOfLife struct (in SpecSnake
                \* the Snake struct)
    pending,    \* file loads launched and not yet delivered
    aborted,    \* TRUE once the program has panicked
    pre,        \* history: the struct before the last operation
    op,         \* history: the last operation and its inputs
    committed   \* history: the canvas when drawing mode was last left

vars == <<game, pending, aborted, pre, op, committed>>

(***************************************************************************)
(* Bounds of the model.                                                    *)
(***************************************************************************)
\* largest rows/cols of the grids the function-level specifications draw
MaxDim == 3
\* largest rows/cols of the grids the glider is seeded in (at least 5)
MaxGlider == 9
\* most generations a run of bare update_cells calls computes
MaxGens == 4
\* most inputs pressed in one frame
MaxKeys == 2
\* largest rows/cols the grow input is followed to
MaxSize == 3
\* most time, in half seconds, time_elapsed is let to gather
MaxHalves == 2
\* most file loads in flight at once
MaxPending == 1
\* longest line of the lines built from every character of the alphabet
MaxShort == 2
\* most live cells, grid and snapshot together, of the grids resize is given
MaxLive == 3
\* the cells of the one-row and one-column grids a save is taken of
MaxWide == 11
\* most tenths of a second step_time is let to rise above its start when
\* every input is played
MaxTenths == 1
\* the snake's grid, grid_size; the code: 30 x 20
GridWidth == 3
GridHeight == 2
\* most apples the snake is let to eat in one game
MaxScore == 4

(***************************************************************************)
(* Vec<bool> helpers.                                                      *)
(***************************************************************************)
At(v, i) == v[i + 1]

Put(v, i, b) == [v EXCEPT ![i + 1] = b]

Filled(n, b) == [i \in 1..n |-> b]

\* Vec::resize(n, value): truncate, or extend with value
VecResize(v, n, b) == [i \in 1..n |-> IF i <= Len(v) THEN v[i] ELSE b]

Min(a, b) == IF a < b THEN a ELSE b

Max(a, b) == IF a > b THEN a ELSE b

\* usize::saturating_sub
SaturatingSub(a, b) == IF a >= b THEN a - b ELSE 0

BoolVecs(n) == [1..n -> BOOLEAN]

(***************************************************************************)
(* f32 arithmetic on seconds, in units of 2^-27 s.                         *)
(***************************************************************************)
\* 0.1f32 = 13421773 * 2^-27
Tenth == 13421773

\* 0.5f32 = 2^26 * 2^-27
Half == 67108864

\* 2.0f32 = 2^28 * 2^-27
TwoSeconds == 268435456

\* 2^24: an f32 significand holds 24 bits
Significand == 16777216

\* the spacing of the f32 values around n >= 0
RECURSIVE Quantum(_, _)
Quantum(n, q) == IF n < Significand * q THEN q ELSE Quantum(n, 2 * q)

\* n >= 0 rounded to the nearest f32, ties to even
F32Round(n) ==
    LET q == Quantum(n, 1)
        r == n % q
        lo == n - r
    IN  IF 2 * r < q THEN lo
        ELSE IF 2 * r > q THEN lo + q
        ELSE IF (lo \div q) % 2 = 0 THEN lo ELSE lo + q

F32Add(a, b) == F32Round(a + b)

F32Sub(a, b) == IF a >= b THEN F32Round(a - b) ELSE 0 - F32Round(b - a)

(***************************************************************************)
(* GameOfLife::get_index                                                   *)
(***************************************************************************)
get_index(g, x, y) == y * g.cols + x

(***************************************************************************)
(* GameOfLife::update_cells                                                *)
(***************************************************************************)
\* the neighbour loops of one cell: clamped ranges, the cell itself skipped
neighbors(g, row, col) ==
    Cardinality({ n \in (SaturatingSub(row, 1)..Min(row + 1, g.rows - 1))
                        \X (SaturatingSub(col, 1)..Min(col + 1, g.cols - 1)) :
                    /\ ~(n[2] = col /\ n[1] = row)
                    /\ At(g.cells, n[1] * g.cols + n[2]) })

\* a deviating rule: a live cell with three neighbours dies of overcrowding
apply_rules_strict(alive, n) ==
    IF n = 2 THEN alive ELSE IF n = 3 THEN ~alive ELSE FALSE

\* a rule under which a cell with no live neighbour comes alive
apply_rules_spontaneous(alive, n) ==
    IF n = 2 THEN alive ELSE IF n = 3 \/ n = 0 THEN TRUE ELSE FALSE

\* "apply rules": the value written to next_cells for a cell with n neighbours
apply_rules(alive, n) ==
    IF n = 2 THEN alive ELSE IF n = 3 THEN TRUE ELSE FALSE

\* the update done in place, cell k onwards reading the cells already written
RECURSIVE InPlaceFrom(_, _)
InPlaceFrom(g, k) ==
    IF k >= g.rows * g.cols THEN g
    ELSE InPlaceFrom(
            [g EXCEPT !.cells =
                Put(g.cells, k,
                    apply_rules(At(g.cells, k),
                                neighbors(g, k \div g.cols, k % g.cols)))],
            k + 1)

update_cells_in_place(g) == InPlaceFrom(g, 0)

\* every write goes to next_cells, every read to cells; then the two swap
update_cells(g) ==
    LET next == [i \in 1..Len(g.next_cells) |->
                    LET row == (i - 1) \div g.cols
                        col == (i - 1) % g.cols
                    IN  IF row < g.rows
                        THEN apply_rules(At(g.cells, row * g.cols + col),
                                         neighbors(g, row, col))
                        ELSE g.next_cells[i]]
    IN  [g EXCEPT !.cells = next, !.next_cells = g.cells]

(***************************************************************************)
(* GameOfLife::spawn_glider and GameOfLife::default                        *)
(***************************************************************************)
GliderCells == << <<0, 1>>, <<1, 2>>, <<2, 0>>, <<2, 1>>, <<2, 2>> >>

RECURSIVE SpawnFrom(_, _)
SpawnFrom(g, k) ==
    IF k > Len(GliderCells) THEN g
    ELSE LET idx == get_index(g, GliderCells[k][1], GliderCells[k][2])
         IN  IF idx >= Len(g.cells)
             THEN SpawnFrom(g, k + 1)
             ELSE SpawnFrom([g EXCEPT !.cells = Put(g.cells, idx, TRUE)], k + 1)

\* a glider seeded with its pairs read as (row, col) instead of (x, y)
spawn_glider_transposed(g) ==
    [g EXCEPT !.cells = [i \in 1..Len(g.cells) |->
        \E k \in 1..Len(GliderCells) :
            /\ GliderCells[k][1] < g.rows /\ GliderCells[k][2] < g.cols
            /\ i - 1 = GliderCells[k][1] * g.cols + GliderCells[k][2]]]

spawn_glider(g) == SpawnFrom(g, 1)

\* rows and cols at the start; the code: START_SIZE = 40
START_SIZE == 2

\* Default::default with the grid rows x cols (the code: START_SIZE both)
default(rows, cols) ==
    LET state == spawn_glider(
            [rows |-> rows, cols |-> cols,
             cells |-> Filled(rows * cols, FALSE),
             next_cells |-> Filled(rows * cols, FALSE),
             reset_cells |-> << >>,
             step_time |-> Half, last_step_time |-> Half, time_elapsed |-> 0,
             drawing_mode |-> FALSE, grid_mode |-> "Lines", paused |-> FALSE])
    IN  [state EXCEPT !.reset_cells = state.cells]

(***************************************************************************)
(* Game::reset                                                             *)
(***************************************************************************)
\* a reset that restores the glider of the start instead of the snapshot
reset_to_glider(g) ==
    [g EXCEPT !.cells = default(g.rows, g.cols).cells, !.time_elapsed = 0]

reset(g) == [g EXCEPT !.cells = g.reset_cells, !.time_elapsed = 0]

(***************************************************************************)
(* GameOfLife::resize                                                      *)
(***************************************************************************)
\* one "map cells to new indices" loop: into, all false and of the new
\* length, takes from[old_index] at new_index for every (row, col) inside
\* the old bounds; limit is self.cells.len() of the bounds check
remap(g, rows, cols, into, from, limit) ==
    [i \in 1..Len(into) |->
        LET row == (i - 1) \div cols
            col == (i - 1) % cols
        IN  IF /\ row < rows
               /\ ~(col >= g.cols \/ row >= g.rows)
               /\ row * cols + col < limit
            THEN At(from, row * g.cols + col)
            ELSE into[i]]

\* a resize that copies the buffers by linear index, not by (row, col)
resize_linear(g, rows, cols) ==
    IF rows < 1 \/ cols < 1 THEN g
    ELSE [g EXCEPT !.cells = VecResize(g.cells, rows * cols, FALSE),
                   !.reset_cells = VecResize(g.reset_cells, rows * cols, FALSE),
                   !.next_cells = VecResize(g.next_cells, rows * cols, FALSE),
                   !.rows = rows, !.cols = cols]

\* a resize without the last step, next_cells.resize
resize_stale_scratch(g, rows, cols) ==
    IF rows < 1 \/ cols < 1 THEN g
    ELSE [g EXCEPT !.cells = remap(g, rows, cols, Filled(rows * cols, FALSE),
                                   g.cells, rows * cols),
                   !.reset_cells = remap(g, rows, cols, Filled(rows * cols, FALSE),
                                         g.reset_cells, rows * cols),
                   !.next_cells = g.reset_cells,
                   !.rows = rows, !.cols = cols]

\* a resize that reads the old buffers with the new row length
resize_new_stride(g, rows, cols) ==
    IF rows < 1 \/ cols < 1 THEN g
    ELSE LET from(v) == [i \in 1..(rows * cols) |->
                            LET row == (i - 1) \div cols
                                col == (i - 1) % cols
                            IN  /\ row < g.rows /\ col < g.cols
                                /\ row * cols + col < Len(v)
                                /\ At(v, row * cols + col)]
         IN  [g EXCEPT !.cells = from(g.cells),
                       !.reset_cells = from(g.reset_cells),
                       !.next_cells = VecResize(g.reset_cells, rows * cols, FALSE),
                       !.rows = rows, !.cols = cols]

\* a resize without the early return on a target below 1
resize_unguarded(g, rows, cols) ==
    [g EXCEPT !.cells = remap(g, rows, cols, Filled(rows * cols, FALSE),
                              g.cells, rows * cols),
              !.reset_cells = remap(g, rows, cols, Filled(rows * cols, FALSE),
                                    g.reset_cells, rows * cols),
              !.next_cells = VecResize(g.reset_cells, rows * cols, FALSE),
              !.rows = rows, !.cols = cols]

resize(g, rows, cols) ==
    IF rows < 1 \/ cols < 1 THEN g
    ELSE LET \* swap(cells, next_cells); cells.resize; cells.fill(false)
             old_cells == g.cells
             blank == Filled(rows * cols, FALSE)
             cells1 == remap(g, rows, cols, blank, old_cells, Len(blank))
             \* swap(reset_cells, next_cells); reset_cells.resize; fill
             old_reset == g.reset_cells
             reset1 == remap(g, rows, cols, blank, old_reset, Len(cells1))
             \* next_cells (the old snapshot) .resize(rows * cols, false)
             next1 == VecResize(old_reset, rows * cols, FALSE)
         IN  [g EXCEPT !.cells = cells1, !.reset_cells = reset1,
                       !.next_cells = next1, !.rows = rows, !.cols = cols]

(***************************************************************************)
(* Text: a sequence of lines (str::lines), a line a sequence of one-       *)
(* character strings.                                                      *)
(***************************************************************************)
Digits == <<"0", "1", "2", "3", "4", "5", "6", "7", "8", "9">>

IsDigit(c) == \E d \in 1..10 : Digits[d] = c

DigitValue(c) == (CHOOSE d \in 1..10 : Digits[d] = c) - 1

RECURSIVE DecimalValue(_, _)
DecimalValue(s, acc) ==
    IF s = << >> THEN acc ELSE DecimalValue(Tail(s), 10 * acc + DigitValue(Head(s)))

\* str::parse::<usize>: an optional "+", then one digit or more
parse(s) ==
    LET body == IF s # << >> /\ Head(s) = "+" THEN Tail(s) ELSE s
    IN  IF body # << >> /\ \A i \in 1..Len(body) : IsDigit(body[i])
        THEN [ok |-> TRUE, val |-> DecimalValue(body, 0)]
        ELSE [ok |-> FALSE, val |-> 0]

\* str::split_once(' '): the parts around the first space, if there is one
split_once(line) ==
    IF \E i \in 1..Len(line) : line[i] = " "
    THEN LET at == CHOOSE i \in 1..Len(line) :
                        line[i] = " " /\ \A j \in 1..(i - 1) : line[j] # " "
         IN  [some |-> TRUE, x |-> SubSeq(line, 1, at - 1),
              y |-> SubSeq(line, at + 1, Len(line))]
    ELSE [some |-> FALSE, x |-> << >>, y |-> << >>]

starts_with_slashes(line) == Len(line) >= 2 /\ line[1] = "/" /\ line[2] = "/"

\* format!("{n}") of a usize
RECURSIVE FormatUsize(_)
FormatUsize(n) ==
    IF n < 10 THEN <<Digits[n + 1]>>
    ELSE Append(FormatUsize(n \div 10), Digits[(n % 10) + 1])

(***************************************************************************)
(* GameOfLife::load_from_text                                              *)
(***************************************************************************)
\* the body of the loop for one line; r = [g, panic, reported]
load_line(r, line) ==
    IF starts_with_slashes(line) \/ line = << >> THEN r
    ELSE LET parts == split_once(line)
             x == parse(parts.x)
             y == parse(parts.y)
         IN  IF ~parts.some
             THEN [r EXCEPT !.panic = TRUE]           \* unwrap() on None
             ELSE IF ~(x.ok /\ y.ok)
             THEN [r EXCEPT !.reported = r.reported + 1]
             ELSE LET index == get_index(r.g, x.val, y.val)
                  IN  IF index < Len(r.g.cells)
                      THEN [r EXCEPT !.g.cells = Put(r.g.cells, index, TRUE)]
                      ELSE r

RECURSIVE LoadFrom(_, _, _)
LoadFrom(r, text, k) ==
    IF k > Len(text) \/ r.panic THEN r
    ELSE LoadFrom(load_line(r, text[k]), text, k + 1)

\* a load that writes the cells of the text over the grid instead of merging
load_from_text_replacing(g, text) ==
    LoadFrom([g |-> [g EXCEPT !.cells = Filled(Len(g.cells), FALSE)],
              panic |-> FALSE, reported |-> 0], text, 1)

load_from_text(g, text) ==
    LoadFrom([g |-> g, panic |-> FALSE, reported |-> 0], text, 1)

(***************************************************************************)
(* GameOfLife::save_to_text                                                *)
(***************************************************************************)
RECURSIVE SaveFrom(_, _)
SaveFrom(g, i) ==
    IF i >= Len(g.cells) THEN << >>
    ELSE IF At(g.cells, i)
    THEN <<FormatUsize(i % g.cols) \o <<" ">> \o FormatUsize(i \div g.cols)>>
            \o SaveFrom(g, i + 1)
    ELSE SaveFrom(g, i + 1)

\* a save that writes the row first: "{y} {x}"
save_to_text_row_first(g) ==
    LET lines == SaveFrom(g, 0)
    IN  [k \in 1..Len(lines) |->
            split_once(lines[k]).y \o <<" ">> \o split_once(lines[k]).x]

save_to_text(g) == SaveFrom(g, 0)

(***************************************************************************)
(* GameOfLife::handle_input.  m is the handler's run so far: the struct g, *)
(* the update_cells calls made, the file loads launched, the texts handed  *)
(* to the file writer, and whether it panicked.  keys are the inputs       *)
(* pressed in the frame; pointer is the pointer position in grid space     *)
(* divided by the cell size and floored, before the cast to usize.         *)
(***************************************************************************)
Keys == {"Space", "R", "ArrowUp", "ArrowDown", "ArrowLeft", "ArrowRight",
         "G", "P", "S", "O", "Primary"}

Run(g) == [g |-> g, calls |-> 0, launched |-> 0, saved |-> << >>, panic |-> FALSE]

\* f32 as usize: saturating, a negative value gives 0
as_usize(f) == IF f < 0 THEN 0 ELSE f

\* a draw-mode toggle that leaves the snapshot alone when drawing ends
input_space_no_commit(m, keys) ==
    IF "Space" \notin keys THEN m
    ELSE IF m.g.drawing_mode
    THEN [m EXCEPT !.g.drawing_mode = FALSE]
    ELSE [m EXCEPT !.g.cells = Filled(Len(m.g.cells), FALSE),
                   !.g.drawing_mode = TRUE]

input_space(m, keys) ==
    IF "Space" \notin keys THEN m
    ELSE IF m.g.drawing_mode
    THEN [m EXCEPT !.g.reset_cells = m.g.cells, !.g.drawing_mode = FALSE]
    ELSE [m EXCEPT !.g.cells = Filled(Len(m.g.cells), FALSE),
                   !.g.drawing_mode = TRUE]

input_reset(m, keys) ==
    IF "R" \in keys THEN [m EXCEPT !.g = reset(m.g)] ELSE m

\* step-time inputs with neither the min nor the max
input_step_time_unclamped(m, keys) ==
    LET up == IF "ArrowUp" \in keys
              THEN F32Add(m.g.step_time, Tenth)
              ELSE m.g.step_time
        down == IF "ArrowDown" \in keys THEN F32Sub(up, Tenth) ELSE up
    IN  [m EXCEPT !.g.step_time = down]

input_step_time(m, keys) ==
    LET up == IF "ArrowUp" \in keys
              THEN Min(F32Add(m.g.step_time, Tenth), TwoSeconds)
              ELSE m.g.step_time
        down == IF "ArrowDown" \in keys THEN Max(F32Sub(up, Tenth), 0) ELSE up
    IN  [m EXCEPT !.g.step_time = down]

input_resize(m, keys) ==
    LET left == IF "ArrowLeft" \notin keys THEN m
                ELSE IF m.g.rows < 1 \/ m.g.cols < 1
                THEN [m EXCEPT !.panic = TRUE]       \* usize subtraction
                ELSE [m EXCEPT !.g = resize(m.g, m.g.rows - 1, m.g.cols - 1)]
    IN  IF "ArrowRight" \in keys /\ ~left.panic
        THEN [left EXCEPT !.g = resize(left.g, left.g.rows + 1, left.g.cols + 1)]
        ELSE left

input_grid_mode(m, keys) ==
    IF "G" \notin keys \/ m.panic THEN m
    ELSE [m EXCEPT !.g.grid_mode =
            CASE m.g.grid_mode = "Lines" -> "Shaded"
              [] m.g.grid_mode = "Shaded" -> "None"
              [] OTHER -> "Lines"]

\* a pause toggle that does not look at drawing mode
input_pause_always(m, keys) ==
    IF ~m.panic /\ "P" \in keys
    THEN [m EXCEPT !.g.paused = ~m.g.paused]
    ELSE m

input_pause(m, keys) ==
    IF ~m.panic /\ ~m.g.drawing_mode /\ "P" \in keys
    THEN [m EXCEPT !.g.paused = ~m.g.paused]
    ELSE m

\* a single step that restarts the clock as the automatic step does
input_single_step_timed(m, keys) ==
    IF ~m.panic /\ m.g.paused /\ "S" \in keys
    THEN [m EXCEPT !.g = update_cells([m.g EXCEPT
                                !.last_step_time = m.g.time_elapsed,
                                !.time_elapsed = 0]),
                   !.calls = m.calls + 1]
    ELSE m

input_single_step(m, keys) ==
    IF ~m.panic /\ m.g.paused /\ "S" \in keys
    THEN [m EXCEPT !.g = update_cells(m.g), !.calls = m.calls + 1]
    ELSE m

\* a pointer press that writes through to the snapshot
paint_through(g, pointer) ==
    LET index == get_index(g, as_usize(pointer[1]), as_usize(pointer[2]))
    IN  IF index < Len(g.cells)
        THEN [g EXCEPT !.cells = Put(g.cells, index, ~At(g.cells, index)),
                       !.reset_cells = Put(g.cells, index, ~At(g.cells, index))]
        ELSE g

\* the pointer press of drawing mode
paint(g, pointer) ==
    LET x == as_usize(pointer[1])
        y == as_usize(pointer[2])
        index == get_index(g, x, y)
    IN  IF index < Len(g.cells)
        THEN [g EXCEPT !.cells = Put(g.cells, index, ~At(g.cells, index))]
        ELSE g

input_drawing(m, keys, pointer) ==
    IF m.panic \/ ~m.g.drawing_mode THEN m
    ELSE [m EXCEPT
            !.launched = IF "O" \in keys THEN m.launched + 1 ELSE m.launched,
            !.saved = IF "S" \in keys THEN <<save_to_text(m.g)>> ELSE m.saved,
            !.g = IF "Primary" \in keys THEN paint(m.g, pointer) ELSE m.g]

\* handle_input up to and including the reset key
until_reset(g, keys) == input_reset(input_space(Run(g), keys), keys)

handle_input(g, keys, pointer) ==
    input_drawing(
        input_single_step(
            input_pause(
                input_grid_mode(
                    input_resize(
                        input_step_time(until_reset(g, keys), keys),
                        keys),
                    keys),
                keys),
            keys),
        keys, pointer)

(***************************************************************************)
(* Game::update: one frame                                                 *)
(***************************************************************************)
\* a frame whose automatic step does not look at paused
update_ignoring_pause(g, keys, pointer, delta) ==
    LET m == handle_input(g, keys, pointer)
        elapsed == F32Add(m.g.time_elapsed, delta)
        timed == [m EXCEPT !.g.time_elapsed = elapsed]
    IN  IF m.panic THEN m
        ELSE IF m.g.drawing_mode \/ elapsed < m.g.step_time
        THEN timed
        ELSE [timed EXCEPT
                !.g = update_cells([m.g EXCEPT !.last_step_time = elapsed,
                                               !.time_elapsed = 0]),
                !.calls = m.calls + 1]

\* a frame that steps only once time_elapsed is past step_time
update_past_step_time(g, keys, pointer, delta) ==
    LET m == handle_input(g, keys, pointer)
        elapsed == F32Add(m.g.time_elapsed, delta)
        timed == [m EXCEPT !.g.time_elapsed = elapsed]
    IN  IF m.panic THEN m
        ELSE IF m.g.drawing_mode \/ elapsed <= m.g.step_time \/ m.g.paused
        THEN timed
        ELSE [timed EXCEPT
                !.g = update_cells([m.g EXCEPT !.last_step_time = elapsed,
                                               !.time_elapsed = 0]),
                !.calls = m.calls + 1]

update(g, keys, pointer, delta) ==
    LET m == handle_input(g, keys, pointer)
        elapsed == F32Add(m.g.time_elapsed, delta)
        timed == [m EXCEPT !.g.time_elapsed = elapsed]
    IN  IF m.panic THEN m
        ELSE IF m.g.drawing_mode \/ elapsed < m.g.step_time \/ m.g.paused
        THEN timed
        ELSE [timed EXCEPT
                !.g = update_cells([m.g EXCEPT !.last_step_time = elapsed,
                                               !.time_elapsed = 0]),
                !.calls = m.calls + 1]

(***************************************************************************)
(* The state machine.                                                      *)
(***************************************************************************)
NoOp ==
    [kind |-> "none", keys |-> {}, pointer |-> <<0, 0>>, delta |-> 0,
     text |-> << >>, rows |-> 0, cols |-> 0, calls |-> 0, launched |-> 0,
     saved |-> << >>, reported |-> 0, req |-> [rows |-> 0, cols |-> 0]]

NoCanvas == [valid |-> FALSE, cells |-> << >>]

Dims == 1..MaxDim

\* the struct as constructed, with the grid set to cells
WithCells(rows, cols, cells) ==
    [default(rows, cols) EXCEPT !.cells = cells, !.reset_cells = cells]

Start(g) ==
    /\ game = g
    /\ pending = << >>
    /\ aborted = FALSE
    /\ pre = g
    /\ op = NoOp
    /\ committed = NoCanvas

\* one bare call of update_cells
StepCells ==
    /\ ~aborted
    /\ op.calls < MaxGens
    /\ game' = update_cells(game)
    /\ pre' = game
    /\ op' = [NoOp EXCEPT !.kind = "step", !.calls = op.calls + 1]
    /\ UNCHANGED <<pending, aborted, committed>>

\* any grid, stepped
InitStep ==
    \E rows \in Dims, cols \in Dims :
        \E cells \in BoolVecs(rows * cols) : Start(WithCells(rows, cols, cells))

SpecStep == InitStep /\ [][StepCells]_vars

\* the glider of the start alone in a grid of at least 5 x 5, stepped
InitGlider ==
    \E rows \in 5..MaxGlider, cols \in 5..MaxGlider : Start(default(rows, cols))

SpecGlider == InitGlider /\ [][StepCells]_vars

\* the subsets of S of at most k elements
RECURSIVE SmallSubsets(_, _)
SmallSubsets(S, k) ==
    IF k = 0 THEN {{}}
    ELSE LET smaller == SmallSubsets(S, k - 1)
         IN  smaller \cup {T \cup {x} : T \in smaller, x \in S}

\* one bare call of resize
Resize(rows, cols) ==
    /\ ~aborted
    /\ op.kind = "none"
    /\ game' = resize(game, rows, cols)
    /\ pre' = game
    /\ op' = [NoOp EXCEPT !.kind = "resize", !.rows = rows, !.cols = cols]
    /\ UNCHANGED <<pending, aborted, committed>>

\* one bare call of reset, right after a resize
Reset ==
    /\ ~aborted
    /\ op.kind = "resize"
    /\ game' = reset(game)
    /\ pre' = game
    /\ op' = [op EXCEPT !.kind = "reset"]
    /\ UNCHANGED <<pending, aborted, committed>>

\* any grid and any snapshot of few live cells, resized to any size, then reset
InitResize ==
    \E rows \in Dims, cols \in Dims :
        \E live \in SmallSubsets(1..(2 * rows * cols), MaxLive) :
            Start([default(rows, cols) EXCEPT
                    !.cells = [i \in 1..(rows * cols) |-> i \in live],
                    !.reset_cells =
                        [i \in 1..(rows * cols) |-> (rows * cols + i) \in live]])

NextResize ==
    \/ \E rows \in 0..MaxDim, cols \in 0..MaxDim : Resize(rows, cols)
    \/ Reset

SpecResize == InitResize /\ [][NextResize]_vars

(***************************************************************************)
(* Saving a grid, and loading the saved text into an all-dead grid.        *)
(***************************************************************************)
\* one bare call of save_to_text
Save ==
    /\ ~aborted
    /\ op.kind = "none"
    /\ op' = [NoOp EXCEPT !.kind = "save", !.saved = <<save_to_text(game)>>]
    /\ pre' = game
    /\ UNCHANGED <<game, pending, aborted, committed>>

\* one bare call of load_from_text, of the text just saved, on the grid
\* with every cell made dead
LoadSaved ==
    /\ ~aborted
    /\ op.kind = "save"
    /\ \E r \in {load_from_text(
                    [game EXCEPT !.cells = Filled(Len(game.cells), FALSE)],
                    op.saved[1])} :
           /\ game' = r.g
           /\ aborted' = r.panic
           /\ op' = [op EXCEPT !.kind = "reload", !.text = op.saved[1],
                               !.reported = r.reported]
    /\ pre' = game
    /\ UNCHANGED <<pending, committed>>

\* any grid up to MaxDim x MaxDim, and any grid of one row or one column of
\* MaxWide cells, whose last coordinates take two digits
InitSave ==
    \E shape \in (Dims \X Dims) \cup {<<1, MaxWide>>, <<MaxWide, 1>>} :
        \E cells \in BoolVecs(shape[1] * shape[2]) :
            Start(WithCells(shape[1], shape[2], cells))

NextSave == Save \/ LoadSaved

SpecSave == InitSave /\ [][NextSave]_vars

(***************************************************************************)
(* The texts a load is given.                                              *)
(***************************************************************************)
Alphabet == {"0", "1", "a", " ", "/", "+"}

\* every line of at most n characters of the alphabet
RECURSIVE ShortLines(_)
ShortLines(n) ==
    IF n = 0 THEN {<< >>}
    ELSE LET shorter == ShortLines(n - 1)
         IN  shorter \cup {Append(l, c) : l \in shorter, c \in Alphabet}

\* "x y" for every x and y up to MaxDim, which no grid of the model holds
CoordLines ==
    {FormatUsize(x) \o <<" ">> \o FormatUsize(y) : x \in 0..MaxDim, y \in 0..MaxDim}

Comment == <<"/", "/", " ", "c", "o", "m", "m", "e", "n", "t">>

BadLine == <<"b", "a", "d", " ", "l", "i", "n", "e">>

\* "// comment\n\n1 1\nbad line\n2 2\n"
ExampleText ==
    <<Comment, << >>, <<"1", " ", "1">>, BadLine, <<"2", " ", "2">>>>

OtherLines ==
    {Comment, BadLine, <<"1", " ", "1", " ", "1">>, <<"1", " ", " ", "1">>,
     <<"+", "1", " ", "0">>, <<"-", "1", " ", "0">>, <<"0", " ", "0", "1">>,
     <<"1", "0", " ", "0">>, <<"0", " ", "1", "0">>, <<"/", "/", "1", " ", "1">>,
     <<"b", "a", "d">>}

Lines == ShortLines(MaxShort) \cup CoordLines \cup OtherLines

\* one line, or two lines one of which is a coordinate line, or the example
Texts ==
    {<<l>> : l \in Lines}
        \cup {<<l, c>> : l \in Lines, c \in CoordLines}
        \cup {<<c, l>> : c \in CoordLines, l \in Lines}
        \cup {ExampleText}

\* one bare call of load_from_text
Load(text) ==
    /\ ~aborted
    /\ op.kind = "none"
    /\ \E r \in {load_from_text(game, text)} :
           /\ game' = r.g
           /\ aborted' = r.panic
           /\ op' = [NoOp EXCEPT !.kind = "load", !.text = text,
                                 !.reported = r.reported]
    /\ pre' = game
    /\ UNCHANGED <<pending, committed>>

\* any grid with at most one live cell, loaded with any text
InitLoad ==
    \E rows \in Dims, cols \in Dims :
        \E live \in SmallSubsets(1..(rows * cols), 1) :
            Start(WithCells(rows, cols, [i \in 1..(rows * cols) |-> i \in live]))

NextLoad == \E text \in Texts : Load(text)

SpecLoad == InitLoad /\ [][NextLoad]_vars

(***************************************************************************)
(* The running program: frames, and deliveries of the files asked for.     *)
(***************************************************************************)
\* the struct was resized in the frame that took it from g by keys to h
Resized(g, keys, h) ==
    \/ h.rows # g.rows
    \/ {"ArrowLeft", "ArrowRight"} \subseteq keys

\* one call of Game::update by the host: a frame
Frame(keys, pointer, delta) ==
    /\ ~aborted
    /\ op.kind = "none"
    /\ \E m \in {update(game, keys, pointer, delta)} :
           /\ m.g.time_elapsed <= MaxHalves * Half
           /\ Len(pending) + m.launched <= MaxPending
           /\ game' = m.g
           /\ aborted' = m.panic
           /\ pending' = pending \o
                [i \in 1..m.launched |-> [rows |-> m.g.rows, cols |-> m.g.cols]]
           /\ op' = [NoOp EXCEPT !.kind = "frame", !.keys = keys,
                                 !.pointer = pointer, !.delta = delta,
                                 !.calls = m.calls, !.launched = m.launched,
                                 !.saved = m.saved]
           /\ committed' =
                IF Resized(game, keys, m.g) THEN NoCanvas
                ELSE IF "Space" \in keys /\ game.drawing_mode
                THEN [valid |-> TRUE, cells |-> game.cells]
                ELSE committed
    /\ pre' = game

\* the host runs the callback of the load launched i-th among those in
\* flight, the file picker having given text
Deliver(i, text) ==
    /\ ~aborted
    /\ op.kind = "none"
    /\ i \in 1..Len(pending)
    /\ \E r \in {load_from_text(game, text)} :
           /\ game' = r.g
           /\ aborted' = r.panic
           /\ op' = [NoOp EXCEPT !.kind = "deliver", !.text = text,
                                 !.reported = r.reported, !.req = pending[i]]
    /\ pending' = [j \in 1..(Len(pending) - 1) |->
                        IF j < i THEN pending[j] ELSE pending[j + 1]]
    /\ pre' = game
    /\ UNCHANGED committed

\* update, or the callback, has returned to the host: the next frame begins
Return ==
    /\ op.kind \in {"frame", "deliver"}
    /\ op' = NoOp
    /\ pre' = game
    /\ UNCHANGED <<game, pending, aborted, committed>>

\* the pointer positions tried: left of the grid, its first two columns,
\* right of it; above it, its first two rows, below it
Pointers(g) == {-1, 0, 1, g.cols} \X {-1, 0, 1, g.rows}

Idle == <<0, 0>>

Deltas == {0, Half}

InitGame == Start(default(START_SIZE, START_SIZE))

\* drawing: one of the drawing, reset and resize inputs a frame, or the
\* toggle or a resize together with the reset; the grid never larger than
\* at the start
DrawKeys == {"Space", "R", "Primary", "ArrowLeft", "ArrowRight"}

DrawInputs ==
    {{}} \cup {{k} : k \in DrawKeys} \cup {{"Space", "R"}, {"R", "ArrowLeft"}}

NextDraw ==
    \/ \E keys \in DrawInputs, delta \in Deltas :
        \E pointer \in IF "Primary" \in keys THEN Pointers(game) ELSE {Idle} :
            /\ Frame(keys, pointer, delta)
            /\ game'.rows <= START_SIZE
    \/ Return

SpecDraw == InitGame /\ [][NextDraw]_vars

\* pausing: any of the toggle, pause and single-step inputs together
PauseKeys == {"Space", "P", "S"}

NextPause ==
    \/ \E keys \in SmallSubsets(PauseKeys, MaxKeys), delta \in Deltas :
        Frame(keys, Idle, delta)
    \/ Return

SpecPause == InitGame /\ [][NextPause]_vars

\* loading: the toggle, open-file and resize inputs, and the deliveries
AsyncKeys == {"Space", "O", "ArrowLeft", "ArrowRight"}

\* "0 0", "2 0", "0 3", a malformed line, and the example
AsyncTexts ==
    {<<<<"0", " ", "0">>>>, <<<<"2", " ", "0">>>>, <<<<"0", " ", "3">>>>,
     <<BadLine>>, ExampleText}

NextAsync ==
    \/ \E keys \in {{}} \cup {{k} : k \in AsyncKeys}, delta \in Deltas :
        /\ Frame(keys, Idle, delta)
        /\ game'.rows <= MaxSize
    \/ \E i \in 1..MaxPending, text \in AsyncTexts : Deliver(i, text)
    \/ Return

SpecAsync == InitGame /\ [][NextAsync]_vars

(***************************************************************************)
(* Resizes to a target below 1, bare and by the shrink input.              *)
(***************************************************************************)
\* any grid and snapshot, given a bare resize with a target below 1, or,
\* the grid square as the program's always is, frames with the shrink input
\* alone down to and at the smallest size
NextShrink ==
    \/ \E rows \in 0..MaxDim, cols \in 0..MaxDim :
        /\ rows < 1 \/ cols < 1
        /\ Resize(rows, cols)
    \/ \E delta \in Deltas :
        /\ game.rows = game.cols
        /\ Frame({"ArrowLeft"}, Idle, delta)
    \/ Return

SpecShrink == InitResize /\ [][NextShrink]_vars

(***************************************************************************)
(* A resize, and the resize back to the dimensions before it.              *)
(***************************************************************************)
\* the second bare call of resize, to the dimensions before the first; pre
\* stays the struct before the first
ResizeBack ==
    /\ ~aborted
    /\ op.kind = "resize"
    /\ game' = resize(game, pre.rows, pre.cols)
    /\ op' = [op EXCEPT !.kind = "resize_back"]
    /\ UNCHANGED <<pending, aborted, pre, committed>>

\* any grid and snapshot, resized to any size of at least 1 x 1 and back
NextResizeBack ==
    \/ \E rows \in 1..MaxDim, cols \in 1..MaxDim : Resize(rows, cols)
    \/ ResizeBack

SpecResizeBack == InitResize /\ [][NextResizeBack]_vars

(***************************************************************************)
(* The running program with every input, one a frame.                      *)
(***************************************************************************)
\* a press on the first cell, on the last cell of a 2 x 2 grid, and left of
\* and below the grid
FewPointers == {<<0, 0>>, <<1, 1>>, <<-1, 2>>}

\* "0 0", "1 1" and "2 0"
FewTexts ==
    {<<<<"0", " ", "0">>>>, <<<<"1", " ", "1">>>>, <<<<"2", " ", "0">>>>}

\* a frame as Frame, and the return to the host, in one step: no history
\* of the frame is kept
Tick(keys, pointer, delta) ==
    /\ ~aborted
    /\ \E m \in {update(game, keys, pointer, delta)} :
           /\ m.g.time_elapsed <= MaxHalves * Half
           /\ Len(pending) + m.launched <= MaxPending
           /\ game' = m.g
           /\ pre' = m.g
           /\ aborted' = m.panic
           /\ pending' = pending \o
                [i \in 1..m.launched |-> [rows |-> m.g.rows, cols |-> m.g.cols]]
    /\ UNCHANGED <<op, committed>>

\* a delivery as Deliver, and the return to the host, in one step
Arrive(i, text) ==
    /\ ~aborted
    /\ i \in 1..Len(pending)
    /\ \E r \in {load_from_text(game, text)} :
           /\ game' = r.g
           /\ pre' = r.g
           /\ aborted' = r.panic
    /\ pending' = [j \in 1..(Len(pending) - 1) |->
                        IF j < i THEN pending[j] ELSE pending[j + 1]]
    /\ UNCHANGED <<op, committed>>

\* every input alone, the frames with an input of no duration; the grid
\* never larger than at the start and step_time at most MaxTenths above and
\* below its start
NextAll ==
    \/ \E keys \in {{k} : k \in Keys \ {"Primary"}} :
        /\ Tick(keys, Idle, 0)
        /\ game'.rows <= START_SIZE
        /\ game'.step_time <= Half + MaxTenths * Tenth
        /\ game'.step_time >= Half - MaxTenths * Tenth
    \/ \E pointer \in FewPointers : Tick({"Primary"}, pointer, 0)
    \/ \E delta \in Deltas : Tick({}, Idle, delta)
    \/ \E i \in 1..MaxPending, text \in FewTexts : Arrive(i, text)

SpecAll == InitGame /\ [][NextAll]_vars

(***************************************************************************)
(* The running program with the step-time inputs.                          *)
(***************************************************************************)
\* the increase and decrease inputs, alone, together or neither
NextDelay ==
    \/ \E keys \in SUBSET {"ArrowUp", "ArrowDown"}, delta \in Deltas :
        Frame(keys, Idle, delta)
    \/ Return

SpecDelay == InitGame /\ [][NextDelay]_vars

(***************************************************************************)
(* The running program with the inputs the clock depends on.               *)
(***************************************************************************)
\* the draw-mode toggle, reset, pause toggle, single step and the two
\* step-time inputs
ClockKeys == {"Space", "R", "P", "S", "ArrowUp", "ArrowDown"}

\* any of them together, at most MaxKeys a frame
NextClock ==
    \/ \E keys \in SmallSubsets(ClockKeys, MaxKeys), delta \in Deltas :
        Frame(keys, Idle, delta)
    \/ Return

SpecClock == InitGame /\ [][NextClock]_vars

(***************************************************************************)
(* The snake game (src/snake/src/main.rs).  A Pos2 is <<x, y>>, both whole *)
(* numbers; segments is a sequence, the head first.  tick is kept as the   *)
(* number n of times it was multiplied by 0.9: its value is                *)
(* START_TICK * 0.9^n, above 0 and at most START_TICK.                     *)
(***************************************************************************)
START_TICK == Half

contains(segments, pos) == \E i \in 1..Len(segments) : segments[i] = pos

\* the while loop of random_pos from pos on: one cell to the right, or to
\* the start of the next row, until pos is on no segment
RECURSIVE scan_free(_, _, _)
scan_free(width, segments, pos) ==
    IF ~contains(segments, pos) THEN pos
    ELSE IF pos[1] < width - 1
    THEN scan_free(width, segments, <<pos[1] + 1, pos[2]>>)
    ELSE scan_free(width, segments, <<0, pos[2] + 1>>)

\* random_pos; drawn is (random_u32(0..width), random_u32(0..height))
random_pos(width, height, segments, drawn) == scan_free(width, segments, drawn)

\* Snake::new; highscore is what the storage holds, 0 without one
snake_new(highscore, drawn) ==
    [segments |-> << <<0, 0>> >>,
     apple |-> random_pos(GridWidth, GridHeight, << <<0, 0>> >>, drawn),
     direction |-> <<1, 0>>,
     tick |-> 0,
     score |-> 0,
     grid_size |-> <<GridWidth, GridHeight>>,
     elapsed |-> 0,
     collision |-> FALSE,
     highscore |-> highscore]

\* Snake::reset
snake_reset(s, drawn) == snake_new(s.highscore, drawn)

\* the if / else if chain of the arrow keys
steer(s, keys) ==
    IF "ArrowLeft" \in keys THEN <<-1, 0>>
    ELSE IF "ArrowRight" \in keys THEN <<1, 0>>
    ELSE IF "ArrowUp" \in keys THEN <<0, -1>>
    ELSE IF "ArrowDown" \in keys THEN <<0, 1>>
    ELSE s.direction

\* self.elapsed < self.tick, for elapsed 0 or at least START_TICK, which
\* is all the deltas of the model make it: 0 < tick <= START_TICK
before_tick(elapsed, tick) == elapsed < START_TICK

\* Snake::update; the result with ticked: whether the snake was moved
snake_update(s, keys, delta, drawn) ==
    IF s.collision
    THEN [s |-> IF "R" \in keys THEN snake_reset(s, drawn) ELSE s,
          ticked |-> FALSE]
    ELSE LET direction == steer(s, keys)
             elapsed == F32Add(s.elapsed, delta)
             turned == [s EXCEPT !.direction = direction]
             new_head == <<s.segments[1][1] + direction[1],
                           s.segments[1][2] + direction[2]>>
         IN  IF before_tick(elapsed, s.tick)
             THEN [s |-> [turned EXCEPT !.elapsed = elapsed], ticked |-> FALSE]
             ELSE IF new_head = s.apple
             THEN LET grown == <<s.apple>> \o s.segments
                  IN  [s |-> [turned EXCEPT
                                !.elapsed = 0,
                                !.segments = grown,
                                !.apple = random_pos(s.grid_size[1],
                                                     s.grid_size[2], grown, drawn),
                                !.score = s.score + 1,
                                !.tick = s.tick + 1],
                       ticked |-> TRUE]
             ELSE IF \/ new_head[1] < 0 \/ new_head[1] >= s.grid_size[1]
                     \/ new_head[2] < 0 \/ new_head[2] >= s.grid_size[2]
                     \/ contains(s.segments, new_head)
             THEN [s |-> [turned EXCEPT
                            !.elapsed = 0,
                            !.collision = TRUE,
                            !.highscore = Max(s.score, s.highscore)],
                   ticked |-> TRUE]
             ELSE [s |-> [turned EXCEPT
                            !.elapsed = 0,
                            !.segments = <<new_head>> \o
                                SubSeq(s.segments, 1, Len(s.segments) - 1)],
                   ticked |-> TRUE]

\* the cells of the grid, which random_u32 draws from
GridCells == (0..(GridWidth - 1)) \X (0..(GridHeight - 1))

\* one call of Snake::update by the host
SnakeFrame(keys, delta, drawn) ==
    /\ ~aborted
    /\ op.kind = "none"
    /\ \E r \in {snake_update(game, keys, delta, drawn)} :
           /\ r.s.score <= MaxScore
           /\ game' = r.s
           /\ op' = [NoOp EXCEPT !.kind = "frame", !.keys = keys,
                                 !.delta = delta, !.pointer = drawn,
                                 !.calls = IF r.ticked THEN 1 ELSE 0]
    /\ pre' = game
    /\ UNCHANGED <<pending, aborted, committed>>

SnakeKeys == {"ArrowLeft", "ArrowRight", "ArrowUp", "ArrowDown", "R"}

\* a new game, no highscore stored or a highscore of 1
InitSnake == \E highscore \in {0, 1}, drawn \in GridCells :
    Start(snake_new(highscore, drawn))

\* no input or one input a frame, the frame of no duration or of a tick
NextSnake ==
    \/ \E keys \in {{}} \cup {{k} : k \in SnakeKeys}, delta \in Deltas,
          drawn \in GridCells :
        SnakeFrame(keys, delta, drawn)
    \/ Return

SpecSnake == InitSnake /\ [][NextSnake]_vars

(***************************************************************************)
(* Vocabulary of the properties.                                           *)
(***************************************************************************)
Coords(g) == (0..(g.rows - 1)) \X (0..(g.cols - 1))

Abs(n) == IF n < 0 THEN 0 - n ELSE n

\* the live cells among the cells adjacent to (row, col) inside the grid
LiveAdjacent(g, row, col) ==
    Cardinality({ p \in Coords(g) :
                    /\ p # <<row, col>>
                    /\ Abs(p[1] - row) <= 1 /\ Abs(p[2] - col) <= 1
                    /\ At(g.cells, p[1] * g.cols + p[2]) })

Alive(g, row, col) == At(g.cells, row * g.cols + col)

\* the live cells of a grid as (x, y) pairs
LiveSet(g) == { p \in (0..(g.cols - 1)) \X (0..(g.rows - 1)) :
                    At(g.cells, p[2] * g.cols + p[1]) }

\* the classical rule of the Game of Life
classical(alive, n) == IF alive THEN n \in {2, 3} ELSE n = 3

(***************************************************************************)
(* C1: one update_cells call sets every cell from the old generation only: *)
(* with n the live cells among the adjacent cells inside the grid, the     *)
(* cell keeps its state if n = 2, is alive if n = 3 and dead otherwise;    *)
(* the dimensions stay.                                                    *)
(***************************************************************************)
C1_StepRule ==
    op.kind = "step" =>
        /\ game.rows = pre.rows /\ game.cols = pre.cols
        /\ Len(game.cells) = pre.rows * pre.cols
        /\ \A p \in Coords(pre) :
            LET n == LiveAdjacent(pre, p[1], p[2])
            IN  Alive(game, p[1], p[2]) =
                    IF n = 2 THEN Alive(pre, p[1], p[2]) ELSE n = 3

\* a step of a 3 x 3 grid in which a cell was born on 3, a live cell stayed
\* on 2, a live cell died on 4 or more and a corner cell had 3 neighbours
C1_Witness ==
    /\ op.kind = "step" /\ pre.rows = 3 /\ pre.cols = 3
    /\ \E p \in Coords(pre) :
        ~Alive(pre, p[1], p[2]) /\ LiveAdjacent(pre, p[1], p[2]) = 3
            /\ Alive(game, p[1], p[2])
    /\ \E p \in Coords(pre) :
        Alive(pre, p[1], p[2]) /\ LiveAdjacent(pre, p[1], p[2]) = 2
            /\ Alive(game, p[1], p[2])
    /\ \E p \in Coords(pre) :
        Alive(pre, p[1], p[2]) /\ LiveAdjacent(pre, p[1], p[2]) >= 4
            /\ ~Alive(game, p[1], p[2])
    /\ LiveAdjacent(pre, 0, 0) = 3

(***************************************************************************)
(* C2: the glider seeded alone in a grid of at least 5 x 5 is, after       *)
(* exactly 4 steps, the same shape moved by (+1, +1) and nothing else.     *)
(***************************************************************************)
C2_GliderMoves ==
    (op.kind = "step" /\ op.calls = 4) =>
        LiveSet(game) = {<<1, 2>>, <<2, 3>>, <<3, 1>>, <<3, 2>>, <<3, 3>>}

\* four steps done on the smallest grid, the glider seeded at the start
C2_Witness ==
    /\ op.kind = "step" /\ op.calls = 4
    /\ game.rows = 5 /\ game.cols = 5
    /\ Cardinality(LiveSet(game)) = 5

(***************************************************************************)
(* C3 as stated: the program's rule differs from the classical rule for    *)
(* some combination of a cell's own state and its neighbour count, hence   *)
(* one step differs from the classical step on some grid (here: of the     *)
(* dimensions of the grid at hand).                                        *)
(***************************************************************************)
C3_Deviates ==
    /\ \E alive \in BOOLEAN, n \in 0..8 :
            apply_rules(alive, n) # classical(alive, n)
    /\ \E cells \in BoolVecs(game.rows * game.cols) :
            LET g == [game EXCEPT !.cells = cells]
            IN  \E p \in Coords(g) :
                    Alive(update_cells(g), p[1], p[2]) #
                        classical(Alive(g, p[1], p[2]), LiveAdjacent(g, p[1], p[2]))

(***************************************************************************)
(* C3 amended: the program's rule is the classical rule: for every own     *)
(* state and neighbour count the two agree, and every step of every grid   *)
(* gives the generation the classical rule gives.                          *)
(***************************************************************************)
C3_SameAsClassical ==
    /\ \A alive \in BOOLEAN, n \in 0..8 : apply_rules(alive, n) = classical(alive, n)
    /\ op.kind = "step" =>
        \A p \in Coords(pre) :
            Alive(game, p[1], p[2]) =
                classical(Alive(pre, p[1], p[2]), LiveAdjacent(pre, p[1], p[2]))

\* a step in which a live cell with 3 neighbours lived on and a dead cell
\* with 2 neighbours stayed dead
C3_Witness ==
    /\ op.kind = "step"
    /\ \E p \in Coords(pre) :
        Alive(pre, p[1], p[2]) /\ LiveAdjacent(pre, p[1], p[2]) = 3
            /\ Alive(game, p[1], p[2])
    /\ \E p \in Coords(pre) :
        ~Alive(pre, p[1], p[2]) /\ LiveAdjacent(pre, p[1], p[2]) = 2
            /\ ~Alive(game, p[1], p[2])

\* v, a buffer of a grid of cols columns, at (row, col)
Cell(v, cols, row, col) == At(v, row * cols + col)

\* buffer now is buffer was, remapped from the dimensions of g to rows x cols
Remapped(now, was, g, rows, cols) ==
    /\ Len(now) = rows * cols
    /\ \A row \in 0..(rows - 1), col \in 0..(cols - 1) :
        Cell(now, cols, row, col) =
            IF row < g.rows /\ col < g.cols
            THEN Cell(was, g.cols, row, col)
            ELSE FALSE

(***************************************************************************)
(* C4: resize(newRows, newCols) with both at least 1 sets the dimensions   *)
(* and gives, in the live grid and in the reset snapshot alike, every      *)
(* coordinate inside the old and the new bounds its old value, makes every *)
(* coordinate outside the old bounds dead and drops the rest; a reset      *)
(* right after it makes the live grid that remapped snapshot.              *)
(***************************************************************************)
C4_ResizeRemaps ==
    /\ (op.kind = "resize" /\ op.rows >= 1 /\ op.cols >= 1) =>
        /\ game.rows = op.rows /\ game.cols = op.cols
        /\ Remapped(game.cells, pre.cells, pre, op.rows, op.cols)
        /\ Remapped(game.reset_cells, pre.reset_cells, pre, op.rows, op.cols)
    /\ (op.kind = "reset" /\ op.rows >= 1 /\ op.cols >= 1) =>
        /\ game.rows = op.rows /\ game.cols = op.cols
        /\ game.reset_cells = pre.reset_cells
        /\ game.cells = pre.reset_cells

\* a reset after a resize from 2 x 3 to 3 x 2 that brought back a snapshot
\* cell kept by the resize, the grid before having held another pattern
C4_Witness ==
    /\ op.kind = "reset" /\ op.rows = 3 /\ op.cols = 2
    /\ Len(game.cells) = 6
    /\ Cell(game.cells, 2, 1, 1)
    /\ ~Cell(pre.cells, 2, 1, 1)

\* line is neither a comment nor blank
IsData(line) == ~starts_with_slashes(line) /\ line # << >>

\* line is "x y": two integer tokens around its first space
WellFormed(line) ==
    /\ IsData(line)
    /\ split_once(line).some
    /\ parse(split_once(line).x).ok /\ parse(split_once(line).y).ok

Malformed(line) == IsData(line) /\ ~WellFormed(line)

LineX(line) == parse(split_once(line).x).val

LineY(line) == parse(split_once(line).y).val

\* a well-formed line whose coordinates lie inside the grid g
InRange(g, line) ==
    WellFormed(line) /\ LineX(line) < g.cols /\ LineY(line) < g.rows

(***************************************************************************)
(* C7: load_from_text never aborts: every malformed line (a token that is  *)
(* no integer, or no space in the line) is reported and skipped, and every *)
(* well-formed line in range is applied wherever it stands in the text.    *)
(***************************************************************************)
C7_LoadNeverAborts ==
    op.kind = "load" =>
        /\ ~aborted
        /\ op.reported = Cardinality({k \in 1..Len(op.text) : Malformed(op.text[k])})
        /\ \A k \in 1..Len(op.text) :
            InRange(pre, op.text[k]) =>
                Alive(game, LineY(op.text[k]), LineX(op.text[k]))

(***************************************************************************)
(* C8: a well-formed line whose coordinates lie outside the grid changes   *)
(* nothing: a load sets alive only the cells named by lines in range, and  *)
(* keeps the dimensions.                                                   *)
(***************************************************************************)
C8_OutOfRangeIgnored ==
    op.kind = "load" =>
        /\ game.rows = pre.rows /\ game.cols = pre.cols
        /\ Len(game.cells) = Len(pre.cells)
        /\ \A p \in Coords(pre) :
            (Alive(game, p[1], p[2]) /\ ~Alive(pre, p[1], p[2])) =>
                \E k \in 1..Len(op.text) :
                    /\ InRange(pre, op.text[k])
                    /\ LineY(op.text[k]) = p[1] /\ LineX(op.text[k]) = p[2]

AllDead(v) == \A i \in 1..Len(v) : ~v[i]

(***************************************************************************)
(* C5: the draw-mode toggle pressed while not drawing makes every cell     *)
(* dead and enters drawing mode; pressed while drawing it copies the live  *)
(* grid into the reset snapshot and leaves drawing mode; every reset after *)
(* that, no resize in between, makes the live grid the canvas as it was    *)
(* when drawing mode was left.                                             *)
(***************************************************************************)
C5_DrawingCommits ==
    op.kind = "frame" =>
        /\ ("Space" \in op.keys /\ ~pre.drawing_mode) =>
            /\ game.drawing_mode
            /\ ("R" \notin op.keys /\ "Primary" \notin op.keys) => AllDead(game.cells)
        /\ ("Space" \in op.keys /\ pre.drawing_mode) =>
            /\ ~game.drawing_mode
            /\ ~Resized(pre, op.keys, game) => game.reset_cells = pre.cells
        /\ ("R" \in op.keys /\ committed.valid) =>
            /\ until_reset(pre, op.keys).g.cells = committed.cells
            /\ (op.calls = 0 /\ ~("Primary" \in op.keys /\ game.drawing_mode)) =>
                    game.cells = committed.cells

\* a reset that brought back a drawn canvas, not the glider of the start,
\* after the grid had moved on from it
C5_Witness ==
    /\ op.kind = "frame" /\ "R" \in op.keys /\ op.calls = 0
    /\ committed.valid /\ ~AllDead(committed.cells)
    /\ committed.cells # default(game.rows, game.cols).cells
    /\ pre.cells # committed.cells
    /\ game.cells = committed.cells
    /\ ~game.drawing_mode

(***************************************************************************)
(* C6: while drawing mode is on the live grid never advances: no frame in  *)
(* which drawing_mode is true calls the update rule, by the timer or by    *)
(* the single-step input, whether or not pause was on before.              *)
(***************************************************************************)
C6_NoStepWhileDrawing ==
    (op.kind = "frame" /\ pre.drawing_mode /\ game.drawing_mode) => op.calls = 0

(***************************************************************************)
(* C9: in drawing mode a pointer press outside the grid leaves every cell  *)
(* as it was, and a press at (x, y) inside it toggles cell (x, y) and no   *)
(* other.                                                                  *)
(***************************************************************************)
C9_PaintInRangeOnly ==
    (op.kind = "frame" /\ op.keys = {"Primary"} /\ pre.drawing_mode) =>
        LET x == op.pointer[1]
            y == op.pointer[2]
        IN  IF x \in 0..(pre.cols - 1) /\ y \in 0..(pre.rows - 1)
            THEN game.cells =
                    Put(pre.cells, y * pre.cols + x, ~Alive(pre, y, x))
            ELSE game.cells = pre.cells

(***************************************************************************)
(* C10: a delivered text is applied against the dimensions of the moment   *)
(* of delivery: it keeps the dimensions and the buffer length, and with a  *)
(* coordinate in it that was in range when the load was asked for and is   *)
(* out of range now, it still sets alive only cells named by a line in     *)
(* range now.                                                              *)
(***************************************************************************)
C10_StaleCoordinateIgnored ==
    op.kind = "deliver" =>
        /\ game.rows = pre.rows /\ game.cols = pre.cols
        /\ Len(game.cells) = Len(pre.cells)
        /\ (\E k \in 1..Len(op.text) :
                InRange(op.req, op.text[k]) /\ ~InRange(pre, op.text[k])) =>
            \A p \in Coords(pre) :
                (Alive(game, p[1], p[2]) /\ ~Alive(pre, p[1], p[2])) =>
                    \E k \in 1..Len(op.text) :
                        /\ InRange(pre, op.text[k])
                        /\ LineY(op.text[k]) = p[1] /\ LineX(op.text[k]) = p[2]

\* the zero-based indices of the live cells of the grid
LiveIndices(g) == {i \in 0..(Len(g.cells) - 1) : At(g.cells, i)}

\* the decimal digits of n < 100, no sign and no leading zero
NumDigits(n) == IF n < 10 THEN 1 ELSE 2

\* line is "<x> <y>" in plain decimal
IsPair(line, x, y) ==
    /\ WellFormed(line)
    /\ LineX(line) = x /\ LineY(line) = y
    /\ Len(line) = NumDigits(x) + 1 + NumDigits(y)
    /\ \A i \in 1..Len(line) : IsDigit(line[i]) \/ line[i] = " "

(***************************************************************************)
(* C11: save_to_text writes one line "<col> <row>" for each live cell, in  *)
(* ascending row-major index order, and nothing else; loading the saved    *)
(* text into the all-dead grid of the same dimensions gives the grid back, *)
(* and saving that again gives the same text.                              *)
(***************************************************************************)
C11_SaveRoundTrip ==
    /\ op.kind = "save" =>
        LET text == op.saved[1]
            live == LiveIndices(game)
        IN  /\ Len(text) = Cardinality(live)
            /\ \A k \in 1..Len(text) :
                \E i \in live :
                    /\ Cardinality({j \in live : j < i}) = k - 1
                    /\ IsPair(text[k], i % game.cols, i \div game.cols)
    /\ op.kind = "reload" =>
        /\ ~aborted
        /\ op.reported = 0
        /\ game.rows = pre.rows /\ game.cols = pre.cols
        /\ game.cells = pre.cells
        /\ save_to_text(game) = op.text

\* a round trip of a grid of one row with the cells at x = 0 and at x = 10
\* alive: a coordinate of two digits went through the text
C11_Witness ==
    /\ op.kind = "reload" /\ game.rows = 1 /\ game.cols > 10
    /\ At(game.cells, 0) /\ At(game.cells, 10)
    /\ Len(op.text) >= 2
    /\ game.cells = pre.cells

(***************************************************************************)
(* C12: load_from_text merges onto the grid: whatever the text, every cell *)
(* alive before the load is alive after it, and the dimensions, the buffer *)
(* length and the reset snapshot are as before.                            *)
(***************************************************************************)
C12_LoadMerges ==
    op.kind = "load" =>
        /\ game.rows = pre.rows /\ game.cols = pre.cols
        /\ game.reset_cells = pre.reset_cells
        /\ Len(game.cells) = Len(pre.cells)
        /\ \A i \in 1..Len(pre.cells) : pre.cells[i] => game.cells[i]

\* a load that set a dead cell alive on a grid holding a live cell, which
\* is still alive
C12_Witness ==
    /\ op.kind = "load" /\ ~aborted
    /\ \E i \in 1..Len(pre.cells) : pre.cells[i] /\ game.cells[i]
    /\ \E i \in 1..Len(pre.cells) : ~pre.cells[i] /\ game.cells[i]

(***************************************************************************)
(* C13: resize with a target of rows or cols below 1 changes nothing: the  *)
(* dimensions, the live grid and the reset snapshot are as before; the     *)
(* shrink input on a grid of one row or one column does not abort and      *)
(* changes none of them either.                                            *)
(***************************************************************************)
C13_ResizeBelowOneNoOp ==
    /\ (op.kind = "resize" /\ (op.rows < 1 \/ op.cols < 1)) => game = pre
    /\ (op.kind = "frame" /\ "ArrowLeft" \in op.keys
            /\ (pre.rows = 1 \/ pre.cols = 1)) =>
        /\ ~aborted
        /\ game.rows = pre.rows /\ game.cols = pre.cols
        /\ game.reset_cells = pre.reset_cells
        /\ Len(game.cells) = Len(pre.cells)
        /\ op.calls = 0 => game.cells = pre.cells

\* the shrink input on the grid of one cell, alive and in the snapshot
C13_Witness ==
    /\ op.kind = "frame" /\ "ArrowLeft" \in op.keys
    /\ pre.rows = 1 /\ pre.cols = 1
    /\ At(pre.cells, 0) /\ At(pre.reset_cells, 0)
    /\ op.calls = 0
    /\ game.rows = 1 /\ game.cols = 1 /\ At(game.cells, 0)

(***************************************************************************)
(* C14: a grid of R x C resized to r x c, both at least 1, and then to     *)
(* R x C again is an R x C grid in which every cell with row < min(R, r)   *)
(* and col < min(C, c) has its first value and every other cell is dead.   *)
(***************************************************************************)
C14_ResizeThereAndBack ==
    op.kind = "resize_back" =>
        /\ game.rows = pre.rows /\ game.cols = pre.cols
        /\ Len(game.cells) = pre.rows * pre.cols
        /\ \A p \in Coords(pre) :
            Alive(game, p[1], p[2]) =
                IF p[1] < Min(pre.rows, op.rows) /\ p[2] < Min(pre.cols, op.cols)
                THEN Alive(pre, p[1], p[2])
                ELSE FALSE

\* 2 x 3 resized to 3 x 2 and back: a live cell inside both bounds is kept
\* and a live cell of the last column is lost
C14_Witness ==
    /\ op.kind = "resize_back" /\ op.rows = 3 /\ op.cols = 2
    /\ pre.rows = 2 /\ pre.cols = 3
    /\ Alive(pre, 1, 1) /\ Alive(game, 1, 1)
    /\ Alive(pre, 0, 2) /\ ~Alive(game, 0, 2)

(***************************************************************************)
(* C15: after construction and after every frame and every delivered load, *)
(* rows >= 1, cols >= 1 and cells, next_cells and reset_cells all have     *)
(* rows * cols elements.                                                   *)
(***************************************************************************)
C15_BufferShape ==
    /\ game.rows >= 1 /\ game.cols >= 1
    /\ Len(game.cells) = game.rows * game.cols
    /\ Len(game.next_cells) = game.rows * game.cols
    /\ Len(game.reset_cells) = game.rows * game.cols

\* the grid shrunk to one cell, drawn on and the drawing committed
C15_Witness ==
    /\ game.rows = 1 /\ game.cols = 1
    /\ ~game.drawing_mode
    /\ game.reset_cells = <<TRUE>>
    /\ Len(game.cells) = 1 /\ Len(game.next_cells) = 1

\* the coordinates (row, col) live in the reset snapshot
SnapshotLive(g) == {p \in Coords(g) : Cell(g.reset_cells, g.cols, p[1], p[2])}

\* the step leaves drawing mode
ExitsDrawing == game.drawing_mode /\ ~game'.drawing_mode

(***************************************************************************)
(* C16 as stated: the set of coordinates live in the reset snapshot        *)
(* changes only in a frame that leaves drawing mode: no step, paint, load, *)
(* reset, resize, pause toggle, step-time or grid-line change alters it.   *)
(***************************************************************************)
C16_OnlyExitChangesSnapshot ==
    [][~ExitsDrawing => SnapshotLive(game') = SnapshotLive(game)]_vars

(***************************************************************************)
(* C16 amended: the set of coordinates live in the reset snapshot changes  *)
(* only in a frame that leaves drawing mode or in a resize that shrinks    *)
(* the grid, which drops the coordinates outside the new bounds and no     *)
(* other; no step, paint, load, reset, growth, pause toggle, step-time or  *)
(* grid-line change alters it.                                             *)
(***************************************************************************)
C16_ExitOrShrinkChangesSnapshot ==
    [][~ExitsDrawing =>
            SnapshotLive(game') = SnapshotLive(game) \cap Coords(game')]_vars

\* out of drawing mode on the 2 x 2 grid, the snapshot a drawing (not the
\* pattern of the start) and the live grid moved on from it
C16_Witness ==
    /\ ~game.drawing_mode /\ game.rows = 2
    /\ ~AllDead(game.reset_cells)
    /\ game.reset_cells # default(2, 2).reset_cells
    /\ game.cells # game.reset_cells

(***************************************************************************)
(* C17: while paused and not drawing, a frame with the single-step input   *)
(* advances the live grid by exactly one generation and leaves the clock   *)
(* to the frame: time_elapsed afterwards is its value before plus the      *)
(* frame's delta, as in a paused frame without the input.                  *)
(***************************************************************************)
C17_SingleStepKeepsClock ==
    (op.kind = "frame" /\ op.keys = {"S"} /\ pre.paused /\ ~pre.drawing_mode) =>
        /\ op.calls = 1
        /\ \A p \in Coords(pre) :
            Alive(game, p[1], p[2]) =
                classical(Alive(pre, p[1], p[2]), LiveAdjacent(pre, p[1], p[2]))
        /\ game.time_elapsed = pre.time_elapsed + op.delta
        /\ game.last_step_time = pre.last_step_time
        /\ game.paused

\* a single step in a frame of half a second, the clock already at the
\* step time: the grid moved on and the clock reads a second
C17_Witness ==
    /\ op.kind = "frame" /\ op.keys = {"S"} /\ op.delta = Half
    /\ pre.paused /\ ~pre.drawing_mode
    /\ pre.time_elapsed = Half /\ pre.time_elapsed >= pre.step_time
    /\ game.time_elapsed = 2 * Half
    /\ op.calls = 1 /\ game.cells # pre.cells

\* drawing mode as it is when the pause key of the frame op is evaluated:
\* after the draw-mode toggle of the same frame
DrawingAtPauseKey ==
    IF "Space" \in op.keys THEN ~pre.drawing_mode ELSE pre.drawing_mode

(***************************************************************************)
(* C18: the pause toggle flips paused only when drawing mode is off: in a  *)
(* frame in which drawing_mode is true when the pause key is evaluated,    *)
(* paused keeps its value; outside drawing mode each press of the pause    *)
(* toggle changes paused to the other value; no other input changes it.    *)
(***************************************************************************)
C18_PauseOnlyOutsideDrawing ==
    op.kind = "frame" =>
        game.paused = IF "P" \in op.keys /\ ~DrawingAtPauseKey
                      THEN ~pre.paused
                      ELSE pre.paused

\* the pause toggle pressed in drawing mode, pause on since before the
\* drawing: it stays on
C18_Witness ==
    /\ op.kind = "frame" /\ op.keys = {"P"}
    /\ pre.drawing_mode /\ pre.paused
    /\ game.paused /\ game.drawing_mode

\* k tenths of a second, rounded down to the unit
TenthsOf(k) == (k * Half) \div 5

\* t is the f32 nearest to k tenths of a second, k in 0..20: within half a
\* spacing of it (and the unit the rounding down may cost)
WholeTenths(t) ==
    \E k \in 0..20 : Abs(t - TenthsOf(k)) <= (Quantum(t, 1) \div 2) + 1

(***************************************************************************)
(* C19 as stated: step_time starts at 0.5 s, is always within 0.0 and 2.0, *)
(* an increase at 2.0 and a decrease at 0.0 leave it unchanged, and,       *)
(* counted in tenths of a second, it is always a whole number in 0..20.    *)
(***************************************************************************)
C19_WholeTenths ==
    /\ default(game.rows, game.cols).step_time = Half
    /\ 0 <= game.step_time /\ game.step_time <= TwoSeconds
    /\ (op.kind = "frame" /\ op.keys = {"ArrowUp"} /\ pre.step_time = TwoSeconds)
            => game.step_time = TwoSeconds
    /\ (op.kind = "frame" /\ op.keys = {"ArrowDown"} /\ pre.step_time = 0)
            => game.step_time = 0
    /\ WholeTenths(game.step_time)

(***************************************************************************)
(* C19 amended: step_time starts at 0.5 s and is always within 0.0 and     *)
(* 2.0; an increase makes it the f32 sum of it and 0.1f32, or 2.0 if that  *)
(* is more, a decrease the f32 difference, or 0.0 if that is less; it need *)
(* not be a whole number of tenths (five decreases from the start leave    *)
(* 2^-26 s, not 0.0) but is always within 2^-21 s of one in 0..20.         *)
(***************************************************************************)
C19_StepTimeClamped ==
    /\ default(game.rows, game.cols).step_time = Half
    /\ 0 <= game.step_time /\ game.step_time <= TwoSeconds
    /\ \E k \in 0..20 : Abs(game.step_time - TenthsOf(k)) <= 64
    /\ (op.kind = "frame" /\ op.keys = {}) => game.step_time = pre.step_time
    /\ (op.kind = "frame" /\ op.keys = {"ArrowUp"}) =>
        IF pre.step_time + Tenth >= TwoSeconds
        THEN game.step_time = TwoSeconds
        ELSE Abs(game.step_time - (pre.step_time + Tenth)) <= 8
    /\ (op.kind = "frame" /\ op.keys = {"ArrowDown"}) =>
        IF pre.step_time <= Tenth
        THEN game.step_time = 0
        ELSE Abs(game.step_time - (pre.step_time - Tenth)) <= 8

\* a decrease from a step time above 0.0 and below a tenth, which the f32
\* differences had left, and an increase that the max cut short
C19_Witness ==
    /\ op.kind = "frame"
    /\ \/ /\ op.keys = {"ArrowDown"}
          /\ 0 < pre.step_time /\ pre.step_time < Tenth
          /\ game.step_time = 0
       \/ /\ op.keys = {"ArrowUp"}
          /\ pre.step_time < TwoSeconds /\ pre.step_time + Tenth > TwoSeconds
          /\ game.step_time = TwoSeconds

(***************************************************************************)
(* C20: one step of an all-dead grid, of any size, gives an all-dead grid  *)
(* of the same size, so an all-dead grid stays all-dead under any number   *)
(* of steps.                                                               *)
(***************************************************************************)
C20_NoSpontaneousGeneration ==
    (op.kind = "step" /\ AllDead(pre.cells)) =>
        /\ AllDead(game.cells)
        /\ Len(game.cells) = Len(pre.cells)

\* the second step or a later one of a 3 x 3 grid all dead before it, and
\* all dead again
C20_Witness ==
    /\ op.kind = "step" /\ op.calls >= 2
    /\ pre.rows = 3 /\ pre.cols = 3
    /\ AllDead(pre.cells) /\ AllDead(game.cells)

\* time_elapsed of the frame op after input handling (a reset makes it 0)
\* and after the frame's delta is added
Accumulated ==
    (IF "R" \in op.keys THEN 0 ELSE pre.time_elapsed) + op.delta

(***************************************************************************)
(* C21: in a frame (here: one without the single-step input, so that every *)
(* generation is an automatic one) a generation happens if and only if,    *)
(* after input handling, drawing mode is off, paused is off and the        *)
(* accumulated time_elapsed is at least step_time; then last_step_time is  *)
(* the accumulated value and time_elapsed is 0, otherwise time_elapsed is  *)
(* the accumulated value and last_step_time stays; with step_time = 0      *)
(* every running frame advances one generation.                            *)
(***************************************************************************)
C21_AutomaticStep ==
    (op.kind = "frame" /\ "S" \notin op.keys) =>
        LET due == /\ ~game.drawing_mode
                   /\ ~game.paused
                   /\ Accumulated >= game.step_time
        IN  /\ op.calls = IF due THEN 1 ELSE 0
            /\ due => /\ game.last_step_time = Accumulated
                      /\ game.time_elapsed = 0
            /\ ~due => /\ game.time_elapsed = Accumulated
                       /\ game.last_step_time = pre.last_step_time
            /\ (game.step_time = 0 /\ ~game.drawing_mode /\ ~game.paused)
                    => op.calls = 1

\* a running frame of no duration with step_time 0 and the clock at 0: a
\* generation all the same
C21_Witness ==
    /\ op.kind = "frame" /\ op.keys = {} /\ op.delta = 0
    /\ pre.step_time = 0 /\ pre.time_elapsed = 0
    /\ ~game.drawing_mode /\ ~game.paused
    /\ op.calls = 1 /\ game.last_step_time = 0

(***************************************************************************)
(* C22: whatever inputs are pressed in a frame and whatever its delta, one *)
(* call of update runs the update rule at most once: the single step and   *)
(* the automatic step never both happen in one frame.                      *)
(***************************************************************************)
C22_AtMostOneGeneration == op.kind = "frame" => op.calls <= 1

\* the pause toggle and the single step pressed together while running,
\* an automatic step due: the single step alone ran
C22_Witness ==
    /\ op.kind = "frame" /\ op.keys = {"P", "S"}
    /\ ~pre.paused /\ ~pre.drawing_mode
    /\ pre.time_elapsed + op.delta >= pre.step_time
    /\ game.paused /\ op.calls = 1
    /\ game.time_elapsed = pre.time_elapsed + op.delta

(***************************************************************************)
(* C23: in the snake game, after construction and after every tick of any  *)
(* play, the apple lies inside the grid (0 <= apple.x < width and          *)
(* 0 <= apple.y < height) and on no snake segment: random_pos always ends  *)
(* on a free cell inside the grid.                                         *)
(***************************************************************************)
C23_AppleInsideAndFree ==
    /\ 0 <= game.apple[1] /\ game.apple[1] < game.grid_size[1]
    /\ 0 <= game.apple[2] /\ game.apple[2] < game.grid_size[2]
    /\ ~contains(game.segments, game.apple)

====
